---- MODULE Spec2Model ----
(***************************************************************************)
(* Model of htwang14/DBD:                                                  *)
(*   src/model/network/se_wideresnet.py  BasicBlock, CDBasicBlock,         *)
(*                                       CDWideResNet, CDWRN28             *)
(*   src/data/backdoor.py                BadNets                           *)
(*                                                                         *)
(* Feature maps are modelled by their shape <<B, C, H, W>> (a failed       *)
(* operation yields Err); the attention masks additionally carry, along    *)
(* their channel axis, the identity of every channel, so that slicing and  *)
(* concatenation are visible.  Which value a layer consumes is recorded as *)
(* the sequence of layer names applied to the block's input.               *)
(***************************************************************************)
EXTENDS Integers, Sequences, FiniteSets, TLC

\* ------------------------------------------------------------------ bounds
MaxDepth == 28
DepthBelow == 6
MaxWiden == 2
MaxAttnVar == 4
MaxBatch == 3
MaxHW == 4
MaxPlaneMul == 2
MaxStride == 3
MaxImg == 4
MaxChan == 2
MaxTrigger == 6

\* partial as an exact fraction num/den (den a power of two, so that the
\* floating-point product 64*widen_factor*partial of the code is exact)
Partials ==
    { [num |-> 1, den |-> 1], [num |-> 1, den |-> 2], [num |-> 5, den |-> 128],
      [num |-> 99, den |-> 128] }

\* ------------------------------------------------------- tensor operations
Err == << >>

Min(a, b) == IF a < b THEN a ELSE b
Max(a, b) == IF a > b THEN a ELSE b

\* int(x) of Python for the quotient a/b, b > 0: truncation toward zero
IntTrunc(a, b) == IF a >= 0 THEN a \div b ELSE 0 - ((0 - a) \div b)

\* range(a, b) of Python
Range(a, b) == IF b > a THEN [i \in 1..(b - a) |-> a + i - 1] ELSE << >>

\* output size of nn.Conv2d along one spatial axis
ConvDim(h, k, s, p) == ((h + 2 * p - k) \div s) + 1

\* nn.Conv2d(cin, cout, kernel_size=k, stride=s, padding=p) applied to x
Conv2d(x, cin, cout, k, s, p) ==
    IF x = Err THEN Err
    ELSE IF x[2] # cin \/ x[3] + 2 * p < k \/ x[4] + 2 * p < k THEN Err
    ELSE << x[1], cout, ConvDim(x[3], k, s, p), ConvDim(x[4], k, s, p) >>

\* nn.BatchNorm2d(c) applied to x
BatchNorm2d(x, c) == IF x = Err \/ x[2] # c THEN Err ELSE x

\* nn.AdaptiveAvgPool2d(1) / F.adaptive_avg_pool2d(x, 1)
AvgPool1(x) == IF x = Err THEN Err ELSE << x[1], x[2], 1, 1 >>

\* broadcasting of two 4-d shapes (torch.add, *)
Broadcast(a, b) ==
    IF a = Err \/ b = Err THEN Err
    ELSE IF \A i \in 1..4 : a[i] = b[i] \/ a[i] = 1 \/ b[i] = 1
         THEN [i \in 1..4 |-> Max(a[i], b[i])]
         ELSE Err

\* the names of the layers applied to the block's input
RAW == << >>
ACT == << "bn1", "relu1" >>

\* ------------------------------------------------------------------ blocks
NoAttn == 0

\* BasicBlock.__init__
BasicBlock(in_planes, out_planes, stride, drop_rate, activate_before_residual) ==
    [ kind |-> "BasicBlock",
      in_planes |-> in_planes,
      out_planes |-> out_planes,
      stride |-> stride,
      drop_rate |-> drop_rate,
      equalInOut |-> (in_planes = out_planes),
      convShortcut |-> ~(in_planes = out_planes),
      activate_before_residual |-> activate_before_residual,
      attn |-> NoAttn ]

\* CDBasicBlock.__init__ : attn is set only for attn_var in {1, 2, 3}
CDBasicBlock(in_planes, out_planes, stride, drop_rate, activate_before_residual, attn_var) ==
    [ kind |-> "CDBasicBlock",
      in_planes |-> in_planes,
      out_planes |-> out_planes,
      stride |-> stride,
      drop_rate |-> drop_rate,
      equalInOut |-> (in_planes = out_planes),
      convShortcut |-> ~(in_planes = out_planes),
      activate_before_residual |-> activate_before_residual,
      attn |-> IF attn_var \in {1, 2, 3} THEN attn_var ELSE NoAttn ]

\* the branch "if not self.equalInOut and self.activate_before_residual == True"
ActivatesX(blk) == ~blk.equalInOut /\ blk.activate_before_residual

\* the value held by x after the if/else: activated or raw
XAfter(blk) == IF ActivatesX(blk) THEN ACT ELSE RAW

\* the argument of conv1: "out if self.equalInOut else x"
Conv1Input(blk) == IF blk.equalInOut THEN ACT ELSE XAfter(blk)

\* whether relu1(bn1(x)) was computed and is read by no later statement
ActDiscarded(blk) == ~ActivatesX(blk) /\ ~blk.equalInOut

\* shape of conv2(relu2(bn2(conv1(.)))) for the input shape x
ResidualPath(blk, x) ==
    LET a  == BatchNorm2d(x, blk.in_planes)
        c1 == Conv2d(a, blk.in_planes, blk.out_planes, 3, blk.stride, 1)
        b2 == BatchNorm2d(c1, blk.out_planes)
    IN  Conv2d(b2, blk.out_planes, blk.out_planes, 3, 1, 1)

\* a shortcut whose 1x1 convolution forgets the stride
ShortcutPathUnstrided(blk, x) ==
    IF blk.equalInOut THEN BatchNorm2d(x, blk.in_planes)
    ELSE Conv2d(BatchNorm2d(x, blk.in_planes), blk.in_planes, blk.out_planes, 1, 1, 0)

\* shape of "x if self.equalInOut else self.convShortcut(x)"
ShortcutPath(blk, x) ==
    IF blk.equalInOut THEN BatchNorm2d(x, blk.in_planes)
    ELSE Conv2d(BatchNorm2d(x, blk.in_planes), blk.in_planes, blk.out_planes, 1, blk.stride, 0)

\* self.attn(out): the (B, C, 1, 1) gate of the three variants
Attn(blk, out) ==
    LET C == blk.out_planes
        p == AvgPool1(out)
    IN  IF blk.attn = 1 THEN Conv2d(Conv2d(p, C, C \div 16, 1, 1, 0), C \div 16, C, 1, 1, 0)
        ELSE IF blk.attn \in {2, 3} THEN Conv2d(p, C, C, 1, 1, 0)
        ELSE Err

\* a mask tensor: its shape, the axis (0-based) that holds the channels, and
\* the identity of the channels along that axis
Mask(shape, caxis, chan) == [ shape |-> shape, caxis |-> caxis, chan |-> chan ]
NoMask == Mask(Err, 0, << >>)

\* BasicBlock.forward
BasicBlockForward(blk, x) ==
    LET res == ResidualPath(blk, x)
        sc  == ShortcutPath(blk, x)
    IN  [ out |-> Broadcast(sc, res),
          masks |-> NoMask,
          residual |-> res,
          shortcut |-> sc,
          x_in |-> x,
          conv1_in |-> Conv1Input(blk),
          shortcut_in |-> XAfter(blk),
          act_discarded |-> ActDiscarded(blk) ]

\* the value CDBasicBlock.forward returns as masks: self.attn(out), unsqueezed
ReturnedMasks(m, C) == IF m = Err THEN NoMask ELSE Mask(m, 1, [c \in 1..C |-> c])

\* CDBasicBlock.forward
CDBasicBlockForward(blk, x) ==
    LET res   == ResidualPath(blk, x)
        m     == Attn(blk, res)
        gated == Broadcast(res, m)
        sc    == ShortcutPath(blk, x)
    IN  [ out |-> Broadcast(sc, gated),
          masks |-> ReturnedMasks(m, blk.out_planes),
          residual |-> gated,
          shortcut |-> sc,
          x_in |-> x,
          conv1_in |-> Conv1Input(blk),
          shortcut_in |-> XAfter(blk),
          act_discarded |-> ActDiscarded(blk) ]

BlockForward(blk, x) ==
    IF blk.kind = "BasicBlock" THEN BasicBlockForward(blk, x) ELSE CDBasicBlockForward(blk, x)

\* ----------------------------------------------------------------- network
\* Python's "c and a or b" for an integer a: b also when a is 0
AndOr(c, a, b) == IF c /\ a # 0 THEN a ELSE b

\* a stage builder that gives the stage's stride to every block
MakeLayerSameStride(nb_layers, in_planes, out_planes, stride, drop_rate, activate_before_residual) ==
    [ i \in 1..Max(nb_layers, 0) |->
        BasicBlock(AndOr(i = 1, in_planes, out_planes), out_planes,
                   stride, drop_rate, activate_before_residual) ]

\* CDWideResNet._make_layer ; blocks are numbered from 1, i = 0 is block 1
MakeLayer(nb_layers, in_planes, out_planes, stride, drop_rate, activate_before_residual) ==
    [ i \in 1..Max(nb_layers, 0) |->
        BasicBlock(AndOr(i = 1, in_planes, out_planes), out_planes,
                   AndOr(i = 1, stride, 1), drop_rate, activate_before_residual) ]

\* CDWideResNet._make_cd_layer
MakeCdLayer(nb_layers, in_planes, out_planes, stride, drop_rate, activate_before_residual, attn_var) ==
    [ i \in 1..Max(nb_layers, 0) |->
        CDBasicBlock(AndOr(i = 1, in_planes, out_planes), out_planes,
                     AndOr(i = 1, stride, 1), drop_rate, activate_before_residual, attn_var) ]

\* channels = [16, 16 * widen_factor, 32 * widen_factor, 64 * widen_factor]
Channels(widen_factor) == << 16, 16 * widen_factor, 32 * widen_factor, 64 * widen_factor >>

\* a constructor without the assertion on depth
DepthAssertOff(depth) == TRUE

\* assert ((depth - 4) % 6 == 0)
DepthAssert(depth) == (depth - 4) % 6 = 0

\* int(n) for n = (depth - 4) / 6
NbLayers(depth) == IntTrunc(depth - 4, 6)

NoNet == [ built |-> FALSE ]

\* the object left by CDWideResNet.__init__ when the assertion holds
NewNet(num_classes, depth, widen_factor, drop_rate, attn_var, partial) ==
    LET channels == Channels(widen_factor)
        n == NbLayers(depth)
    IN  [ built |-> TRUE,
          attn_var |-> attn_var,
          partial |-> partial,
          widen_factor |-> widen_factor,
          block1 |-> MakeLayer(n, channels[1], channels[2], 1, drop_rate, TRUE),
          block2 |-> MakeLayer(n, channels[2], channels[3], 2, drop_rate, FALSE),
          block3 |-> MakeCdLayer(n, channels[3], channels[4], 2, drop_rate, FALSE, attn_var),
          channels |-> channels[4],
          num_classes |-> num_classes ]

\* the results of the blocks of a stage, each fed with the previous output
\* (r ranges over the one result of the stage's first block)
RECURSIVE StageTrace(_, _)
StageTrace(blocks, x) ==
    IF blocks = << >> THEN << >>
    ELSE CHOOSE t \in { << r >> \o StageTrace(Tail(blocks), r.out) :
                          r \in { BlockForward(Head(blocks), x) } } : TRUE

\* the output of a stage whose trace is t, for the input x
StageOut(t, x) == IF t = << >> THEN x ELSE t[Len(t)].out

\* mask.squeeze(): every dimension of size 1 is removed
Squeeze(m) ==
    IF m.shape = Err THEN NoMask
    ELSE LET keep(d) == d # 1
             before == SelectSeq(SubSeq(m.shape, 1, m.caxis), keep)
             shape == SelectSeq(m.shape, keep)
         IN  IF m.shape[m.caxis + 1] = 1 THEN Mask(shape, Len(shape), << >>)
             ELSE Mask(shape, Len(before), m.chan)

\* mask[:, 0:k] : an IndexError on a tensor with fewer than two dimensions
SliceCols(m, k) ==
    IF m.shape = Err \/ Len(m.shape) < 2 THEN NoMask
    ELSE LET w == Min(k, m.shape[2])
         IN  Mask([m.shape EXCEPT ![2] = w], m.caxis,
                  IF m.caxis = 1 THEN SubSeq(m.chan, 1, w) ELSE m.chan)

\* a width rounded up instead of truncated
PartialWidthCeil(widen_factor, partial) ==
    IntTrunc(64 * widen_factor * partial.num + partial.den - 1, partial.den)

\* int(64 * self.widen_factor * self.partial)
PartialWidth(widen_factor, partial) == IntTrunc(64 * widen_factor * partial.num, partial.den)

\* self.partial < 1
PartialBelowOne(partial) == partial.num < partial.den

\* the body of "for layer in self.block3" after layer(out), for layer i with result r
CollectMask(net, i, r) ==
    LET named == IF r.masks.shape = Err THEN NoMask
                 ELSE Mask(r.masks.shape, r.masks.caxis,
                           [c \in 1..Len(r.masks.chan) |-> << i, r.masks.chan[c] >>])
        mask == Squeeze(named)
    IN  IF r.out = Err THEN NoMask
        ELSE IF PartialBelowOne(net.partial)
             THEN SliceCols(mask, PartialWidth(net.widen_factor, net.partial))
             ELSE mask

RECURSIVE SumWidth(_)
SumWidth(ms) == IF ms = << >> THEN 0 ELSE Head(ms).shape[2] + SumWidth(Tail(ms))

RECURSIVE ConcatChan(_)
ConcatChan(ms) == IF ms = << >> THEN << >> ELSE Head(ms).chan \o ConcatChan(Tail(ms))

\* torch.cat(mask_per_layer, dim=1)
Cat1(ms) ==
    IF ms = << >> THEN NoMask
    ELSE IF \E i \in 1..Len(ms) : ms[i].shape = Err \/ Len(ms[i].shape) < 2 THEN NoMask
    ELSE IF \E i \in 1..Len(ms) :
              \/ Len(ms[i].shape) # Len(ms[1].shape)
              \/ \E d \in 1..Len(ms[1].shape) : d # 2 /\ ms[i].shape[d] # ms[1].shape[d]
         THEN NoMask
    ELSE Mask([ms[1].shape EXCEPT ![2] = SumWidth(ms)], ms[1].caxis, ConcatChan(ms))

\* logits = self.fc(out.view(-1, self.channels)) after bn1, relu and the pooling
Logits(net, out) ==
    LET p == AvgPool1(BatchNorm2d(out, net.channels))
    IN  IF p = Err THEN NoMask ELSE Mask(<< p[1], net.num_classes >>, 1, << >>)

\* the value of the return statement of CDWideResNet.forward
Returned(logits, mask) == << logits >>

\* ----------------------------------------------------------------- BadNets
\* numpy's index j on an axis of size n; -1 stands for an IndexError
NormIndex(j, n) ==
    IF j >= 0 /\ j < n THEN j
    ELSE IF j < 0 /\ j + n >= 0 THEN j + n
    ELSE 0 - 1

\* rows that reach the image's edge
TriggerRowsToEdge(width, trigger_size) == Range(width - trigger_size, width)

\* range(width - 1 - self.trigger_size, width - 1)
TriggerRows(width, trigger_size) == Range(width - 1 - trigger_size, width - 1)

\* range(height - 1 - self.trigger_size, height - 1)
TriggerCols(height, trigger_size) == Range(height - 1 - trigger_size, height - 1)

\* the (j, k) of the two nested loops, in the order they are visited
LoopIndices(js, ks) ==
    [ i \in 1..(Len(js) * Len(ks)) |->
        << js[((i - 1) \div Len(ks)) + 1], ks[((i - 1) % Len(ks)) + 1] >> ]

\* poison_img = img : the array poison_img names, for the array img names
PoisonRef(ref) == ref

\* poison_img[j, k] = 255.0 for the pairs of idx from position i on; the
\* loop ends at the first IndexError
RECURSIVE WriteAll(_, _, _, _)
WriteAll(st, idx, i, chans) ==
    IF i > Len(idx) THEN st
    ELSE LET r == NormIndex(idx[i][1], st.shape[1])
             c == NormIndex(idx[i][2], st.shape[2])
         IN  IF r < 0 \/ c < 0 THEN [st EXCEPT !.raised = TRUE]
             ELSE WriteAll([st EXCEPT !.px[<< r, c >>] = [ch \in 1..chans |-> 255],
                                      !.written = @ \cup {<< r, c >>}],
                           idx, i + 1, chans)

\* BadNets.add_trigger on the array ref of heap h
AddTrigger(h, ref, trigger_size) ==
    LET image == h[ref]
        p  == PoisonRef(ref)
        h1 == (p :> image) @@ h
        width  == image.shape[1]
        height == image.shape[2]
        idx == LoopIndices(TriggerRows(width, trigger_size), TriggerCols(height, trigger_size))
        st == WriteAll([shape |-> image.shape, px |-> h1[p].px, written |-> {}, raised |-> FALSE],
                       idx, 1, image.shape[3])
    IN  [ heap |-> [h1 EXCEPT ![p] = [shape |-> image.shape, px |-> st.px]],
          written |-> st.written,
          raised |-> st.raised,
          ret |-> p ]

\* the arrays handed to the transform: H x W x C, black or a gradient
Images ==
    { [ shape |-> << h, w, c >>,
        px |-> [rc \in (0..(h - 1)) \X (0..(w - 1)) |->
                  [ch \in 1..c |-> IF g THEN (rc[1] * 7 + rc[2] * 3 + ch) % 256 ELSE 0]] ] :
      h \in 1..MaxImg, w \in 1..MaxImg, c \in 1..MaxChan, g \in BOOLEAN }

\* ------------------------------------------------------------------- state
VARIABLES pc, args, net, fwd, ret, blk, blk_ret, tpc, bad, heap, img, img0, result, written

vars == << pc, args, net, fwd, ret, blk, blk_ret, tpc, bad, heap, img, img0, result, written >>
netvars == << pc, args, net, fwd, ret, blk, blk_ret >>
trigvars == << tpc, bad, heap, img, img0, result, written >>

NoArgs == [ depth |-> 4, widen_factor |-> 0 ]
NoFwd == [ x |-> Err, trace1 |-> << >>, trace2 |-> << >>, trace3 |-> << >>,
           mask_per_layer |-> << >>, mask |-> NoMask, logits |-> NoMask, raised |-> FALSE ]
NoBlock == [ kind |-> "none" ]
NoRef == 0
NumClasses == 10

Init ==
    /\ pc = "start"
    /\ args = NoArgs
    /\ net = NoNet
    /\ fwd = NoFwd
    /\ ret = << >>
    /\ blk = NoBlock
    /\ blk_ret = << >>
    /\ tpc = "start"
    /\ bad = [ trigger_size |-> 0 ]
    /\ heap = << >>
    /\ img = NoRef
    /\ img0 = << >>
    /\ result = NoRef
    /\ written = {}

\* CDWideResNet.__init__
Construct(num_classes, depth, widen_factor, drop_rate, attn_var, partial) ==
    /\ pc = "start"
    /\ args' = [ num_classes |-> num_classes, depth |-> depth, widen_factor |-> widen_factor,
                 drop_rate |-> drop_rate, attn_var |-> attn_var, partial |-> partial ]
    /\ IF DepthAssert(depth)
       THEN /\ net' = NewNet(num_classes, depth, widen_factor, drop_rate, attn_var, partial)
            /\ pc' = "constructed"
       ELSE /\ net' = NoNet
            /\ pc' = "AssertionError"
    /\ UNCHANGED << fwd, ret, blk, blk_ret >>
    /\ UNCHANGED trigvars

\* CDWRN28
CDWRN28(num_classes, widen_factor) ==
    Construct(num_classes, 28, widen_factor, 0, 1, [num |-> 1, den |-> 1])

\* CDWideResNet.forward on a batch of shape x; the bound names are the
\* locals of the call, in the order the statements compute them
Forward(x) ==
    /\ pc = "constructed"
    /\ \E c1 \in { Conv2d(x, 3, 16, 3, 1, 1) } :
       \E t1 \in { StageTrace(net.block1, c1) } :
       \E t2 \in { StageTrace(net.block2, StageOut(t1, c1)) } :
       \E t3 \in { StageTrace(net.block3, StageOut(t2, StageOut(t1, c1))) } :
       \E mask_per_layer \in { [i \in 1..Len(t3) |-> CollectMask(net, i, t3[i])] } :
       \E mask \in { Cat1(mask_per_layer) } :
       \E logits \in { IF mask.shape = Err THEN NoMask
                       ELSE Logits(net, StageOut(t3, StageOut(t2, StageOut(t1, c1)))) } :
          /\ fwd' = [ x |-> x, trace1 |-> t1, trace2 |-> t2, trace3 |-> t3,
                      mask_per_layer |-> mask_per_layer, mask |-> mask,
                      logits |-> logits, raised |-> (logits.shape = Err) ]
          /\ ret' = IF logits.shape = Err THEN << >> ELSE Returned(logits, mask)
          /\ pc' = IF logits.shape = Err THEN "raised" ELSE "returned"
    /\ UNCHANGED << args, net, blk, blk_ret >>
    /\ UNCHANGED trigvars

\* BasicBlock(...) built on its own
NewBasicBlock(in_planes, out_planes, stride, drop_rate, flag) ==
    /\ pc = "start"
    /\ blk' = BasicBlock(in_planes, out_planes, stride, drop_rate, flag)
    /\ pc' = "block"
    /\ UNCHANGED << args, net, fwd, ret, blk_ret >>
    /\ UNCHANGED trigvars

\* CDBasicBlock(...) built on its own
NewCDBasicBlock(in_planes, out_planes, stride, drop_rate, flag, attn_var) ==
    /\ pc = "start"
    /\ blk' = CDBasicBlock(in_planes, out_planes, stride, drop_rate, flag, attn_var)
    /\ pc' = "block"
    /\ UNCHANGED << args, net, fwd, ret, blk_ret >>
    /\ UNCHANGED trigvars

\* BasicBlock.forward / CDBasicBlock.forward of the block built on its own
BlockCall(x) ==
    /\ pc = "block"
    /\ blk_ret' = << BlockForward(blk, x) >>
    /\ pc' = IF BlockForward(blk, x).out = Err THEN "block_raised" ELSE "block_returned"
    /\ UNCHANGED << args, net, fwd, ret, blk >>
    /\ UNCHANGED trigvars

\* BadNets.__init__
BadNetsInit(trigger_size) ==
    /\ tpc = "start"
    /\ bad' = [ trigger_size |-> trigger_size ]
    /\ tpc' = "ready"
    /\ UNCHANGED << heap, img, img0, result, written >>
    /\ UNCHANGED netvars

\* BadNets.__call__ on the caller's array image
BadNetsCall(image) ==
    /\ tpc = "ready"
    /\ LET r == AddTrigger(<< image >>, 1, bad.trigger_size)
       IN  /\ heap' = r.heap
           /\ written' = r.written
           /\ result' = IF r.raised THEN NoRef ELSE r.ret
           /\ tpc' = IF r.raised THEN "IndexError" ELSE "returned"
    /\ img' = 1
    /\ img0' = image
    /\ UNCHANGED bad
    /\ UNCHANGED netvars

Planes == { 16 * m : m \in 1..MaxPlaneMul }
InputShapes == { << b, 3, h, w >> : b \in 1..MaxBatch, h \in 1..MaxHW, w \in 1..MaxHW }

Next ==
    \/ \E depth \in (0 - DepthBelow)..MaxDepth, wf \in 1..MaxWiden,
          av \in 1..MaxAttnVar, p \in Partials :
          Construct(NumClasses, depth, wf, 0, av, p)
    \/ \E wf \in 1..MaxWiden : CDWRN28(NumClasses, wf)
    \/ \E x \in InputShapes : Forward(x)
    \/ \E i \in Planes, o \in Planes, s \in 1..MaxStride, f \in BOOLEAN :
          NewBasicBlock(i, o, s, 0, f)
    \/ \E i \in Planes, o \in Planes, s \in 1..MaxStride, f \in BOOLEAN, av \in 1..MaxAttnVar :
          NewCDBasicBlock(i, o, s, 0, f, av)
    \/ \E b \in 1..MaxBatch, h \in 1..MaxHW, w \in 1..MaxHW : BlockCall(<< b, blk.in_planes, h, w >>)

Spec == Init /\ [][Next]_vars

NextTrigger ==
    \/ \E t \in 0..MaxTrigger : BadNetsInit(t)
    \/ \E image \in Images : BadNetsCall(image)

SpecTrigger == Init /\ [][NextTrigger]_vars

\* ------------------------------------------------------------------ claims
\* the number of blocks per stage the claims name: n = (depth - 4) / 6
N == (args.depth - 4) \div 6

\* the width K the claims name for a collected gate
K == IF args.partial.num >= args.partial.den THEN 64 * args.widen_factor
     ELSE (64 * args.widen_factor * args.partial.num) \div args.partial.den

\* the gate of stage-3 block i restricted to its first k channels
FirstK(i, k) == [c \in 1..k |-> << i, c >>]

RECURSIVE GatesInOrder(_, _, _)
GatesInOrder(i, n, k) == IF i > n THEN << >> ELSE FirstK(i, k) \o GatesInOrder(i + 1, n, k)

\* C1: a forward pass that returns, returns the pair (logits, concatenated
\* gate tensor): two values, the second being the gate tensor of stage 3.
C1_ReturnsPair ==
    pc = "returned" => Len(ret) = 2 /\ ret[1] = fwd.logits /\ ret[2] = fwd.mask

\* C2: on a network with n >= 1 blocks per stage and a known attention
\* variant, the forward pass completes for every batch size B >= 1, every
\* collected gate is 2-dimensional (B, channels) and the gate tensor is (B, G).
C2_BatchAxisKept ==
    (pc \in {"returned", "raised"} /\ N >= 1 /\ args.attn_var \in {1, 2, 3}) =>
        /\ pc = "returned"
        /\ \A i \in 1..Len(fwd.mask_per_layer) :
              /\ Len(fwd.mask_per_layer[i].shape) = 2
              /\ fwd.mask_per_layer[i].shape[1] = fwd.x[1]
        /\ Len(fwd.mask.shape) = 2
        /\ fwd.mask.shape[1] = fwd.x[1]

\* C3: for B >= 2 the gate tensor built by a completed forward pass is the
\* concatenation, in stage-3 block order, of the first K channels of every
\* block's gate, so its shape is (B, n * K).
C3_GateIsConcatOfFirstK ==
    (pc = "returned" /\ fwd.x[1] >= 2) =>
        /\ fwd.mask.shape = << fwd.x[1], N * K >>
        /\ fwd.mask.caxis = 1
        /\ fwd.mask.chan = GatesInOrder(1, N, K)
        /\ Len(fwd.mask_per_layer) = N
        /\ \A i \in 1..N : fwd.mask_per_layer[i].chan = FirstK(i, K)

C3_Witness ==
    /\ pc = "returned"
    /\ fwd.x[1] >= 2
    /\ N = 4
    /\ args.partial = [num |-> 5, den |-> 128]
    /\ args.widen_factor = 1
    /\ fwd.mask.shape[2] = 8

\* C4: construction fails if and only if (depth - 4) mod 6 # 0; when it
\* fails no network (and so no stage) exists, when it succeeds the three
\* stages exist.
C4_FailsIffDepthInvalid ==
    /\ pc = "AssertionError" => ((args.depth - 4) % 6 # 0 /\ net = NoNet)
    /\ pc \in {"constructed", "returned", "raised"} =>
          ((args.depth - 4) % 6 = 0 /\ net.built /\ Len(net.block3) = Max(N, 0))
    /\ pc \in {"AssertionError", "constructed", "returned", "raised"}
          => (pc = "AssertionError" <=> (args.depth - 4) % 6 # 0)

C4_Witness ==
    /\ pc = "AssertionError"
    /\ args.depth = 27
    /\ net = NoNet

\* C5: for 1 <= t <= min(H, W) - 1 the call returns the array it was given,
\* in which exactly the pixels of rows H-1-t .. H-2 and columns W-1-t .. W-2
\* are 255 in every channel and every other pixel is as before.
C5_TriggerSquareInPlace ==
    LET H == img0.shape[1]
        W == img0.shape[2]
        t == bad.trigger_size
    IN  (tpc \in {"returned", "IndexError"} /\ 1 <= t /\ t <= Min(H, W) - 1) =>
            /\ tpc = "returned"
            /\ result = img
            /\ DOMAIN heap = {img}
            /\ heap[img].shape = img0.shape
            /\ \A r \in 0..(H - 1), c \in 0..(W - 1) :
                  heap[img].px[<< r, c >>] =
                      IF r \in (H - 1 - t)..(H - 2) /\ c \in (W - 1 - t)..(W - 2)
                      THEN [ch \in 1..img0.shape[3] |-> 255]
                      ELSE img0.px[<< r, c >>]

C5_Witness ==
    /\ tpc = "returned"
    /\ bad.trigger_size = 2
    /\ img0.shape = << 4, 3, 2 >>
    /\ img0.px[<< 0, 0 >>] # << 0, 0 >>
    /\ heap[img].px[<< 1, 0 >>] = << 255, 255 >>
    /\ heap[img].px[<< 3, 1 >>] = img0.px[<< 3, 1 >>]

\* C6: for every H, W >= 1 and every t >= 0 no pixel of the final row H-1 or of
\* the final column W-1 is written, and the written pixels form one
\* contiguous square of at most t x t pixels.
C6_FinalRowColumnUntouched ==
    LET H == img0.shape[1]
        W == img0.shape[2]
        t == bad.trigger_size
    IN  tpc \in {"returned", "IndexError"} =>
            /\ \A rc \in written : rc[1] # H - 1 /\ rc[2] # W - 1
            /\ \E r0 \in 0..H, c0 \in 0..W, side \in 0..t :
                  written = (r0..(r0 + side - 1)) \X (c0..(c0 + side - 1))

\* C7: the gate a CDBasicBlock returns has shape (B, C), C = out_channels.
C7_BlockGateIsSqueezed ==
    (pc = "block_returned" /\ blk.kind = "CDBasicBlock") =>
        blk_ret[1].masks.shape = << blk_ret[1].x_in[1], blk.out_planes >>

\* C8: in a block with in_channels # out_channels and
\* activate_before_residual = false, conv1 consumes relu1(bn1(x)), the
\* shortcut consumes the raw x, and the activated value is not discarded.
C8_ActivatedFeedsResidual ==
    (pc \in {"block_returned", "block_raised"}
       /\ blk.in_planes # blk.out_planes /\ ~blk.activate_before_residual) =>
        /\ blk_ret[1].conv1_in = ACT
        /\ blk_ret[1].shortcut_in = RAW
        /\ ~blk_ret[1].act_discarded

\* the three stages as CDWideResNet.__init__ asks for them:
\* << in_channels, out_channels, stride, activate_before_residual >>
StageAsked(k) ==
    LET wf == args.widen_factor
    IN  CASE k = 1 -> << 16, 16 * wf, 1, TRUE >>
          [] k = 2 -> << 16 * wf, 32 * wf, 2, FALSE >>
          [] k = 3 -> << 32 * wf, 64 * wf, 2, FALSE >>

StageBuilt(k) == CASE k = 1 -> net.block1 [] k = 2 -> net.block2 [] k = 3 -> net.block3

Configured(b, in_planes, out_planes, stride, flag) ==
    /\ b.in_planes = in_planes
    /\ b.out_planes = out_planes
    /\ b.stride = stride
    /\ b.activate_before_residual = flag

\* C9 as stated: a stage holds n blocks, block 0 is (in -> out, stride, flag)
\* and every later block is (out -> out, 1, false) whatever the stage's flag.
C9_LaterBlocksFlagFalse ==
    (net.built /\ N >= 1) =>
        \A k \in 1..3 :
            LET a == StageAsked(k)
                st == StageBuilt(k)
            IN  /\ Len(st) = N
                /\ Configured(st[1], a[1], a[2], a[3], a[4])
                /\ \A i \in 2..N : Configured(st[i], a[2], a[2], 1, FALSE)

\* C9 amended: every later block is (out -> out, 1, the stage's flag); as its
\* in_channels equal its out_channels the flag never selects the
\* activate-before-residual branch there.
C9_LaterBlocksKeepStageFlag ==
    (net.built /\ N >= 1) =>
        \A k \in 1..3 :
            LET a == StageAsked(k)
                st == StageBuilt(k)
            IN  /\ Len(st) = N
                /\ Configured(st[1], a[1], a[2], a[3], a[4])
                /\ \A i \in 2..N :
                      /\ Configured(st[i], a[2], a[2], 1, a[4])
                      /\ ~ActivatesX(st[i])
                      /\ st[i].kind = st[1].kind

C9_Witness ==
    /\ pc = "constructed"
    /\ N = 4
    /\ args.widen_factor = 2
    /\ net.block1[3].activate_before_residual
    /\ net.block3[4].in_planes = 128

\* the shape the claim names for a block of stride s on the input x
Downsampled(x, out_planes, s) ==
    << x[1], out_planes, ((x[3] - 1) \div s) + 1, ((x[4] - 1) \div s) + 1 >>

\* the attention of a block can be computed (a plain block has none)
GateOk(b) == b.kind = "BasicBlock" \/ b.attn \in {1, 2, 3}

\* what C10 says of the block b whose forward pass yielded r
ShapesAgree(b, r) ==
    /\ (b.in_planes # b.out_planes /\ GateOk(b)) =>
          /\ r.residual = Downsampled(r.x_in, b.out_planes, b.stride)
          /\ r.shortcut = Downsampled(r.x_in, b.out_planes, b.stride)
          /\ r.out = Downsampled(r.x_in, b.out_planes, b.stride)
    /\ (b.in_planes = b.out_planes /\ b.stride = 1 /\ GateOk(b)) => r.out = r.x_in

\* C10: with in_channels # out_channels the residual path and the shortcut
\* yield the same shape (B, out_channels, floor((H-1)/s)+1, floor((W-1)/s)+1);
\* with in_channels = out_channels and s = 1 the output has the input's shape;
\* and in a backbone no block adds two tensors of different shapes.
C10_AdditionShapesMatch ==
    /\ pc \in {"block_returned", "block_raised"} => ShapesAgree(blk, blk_ret[1])
    /\ pc \in {"returned", "raised"} =>
          \A k \in 1..3 :
              LET st == StageBuilt(k)
                  tr == CASE k = 1 -> fwd.trace1 [] k = 2 -> fwd.trace2 [] k = 3 -> fwd.trace3
              IN  /\ Len(tr) = Len(st)
                  /\ \A i \in 1..Len(tr) :
                        /\ ShapesAgree(st[i], tr[i])
                        /\ GateOk(st[i]) => (tr[i].residual = tr[i].shortcut /\ tr[i].out # Err)

C10_Witness ==
    /\ pc = "block_returned"
    /\ blk.kind = "CDBasicBlock"
    /\ blk.in_planes # blk.out_planes
    /\ blk.stride = 2
    /\ blk_ret[1].x_in[3] = 3
    /\ blk_ret[1].x_in[4] = 2
    /\ blk_ret[1].out = << blk_ret[1].x_in[1], blk.out_planes, 2, 1 >>

====
